---- MODULE Spec2Model ----
(***************************************************************************)
(* Book review API: the Express route handlers of routes/reviews.js and    *)
(* routes/auth.js with the middleware of middleware/auth.js, run against   *)
(* the Book, Review and User collections.  Every await of a handler is a   *)
(* point where another request may run; a database call is one atomic step.*)
(***************************************************************************)
EXTENDS Integers, FiniteSets, Sequences, TLC

\* ------------------------------------------------------------------ bounds
\* Requests the server may be handling at once.
MaxInFlight == 2
\* Reviews ever inserted (review _ids are never reused).
MaxReviews == 2
\* Login requests one client sends within one window of authLimiter.
MaxAttempts == 7
\* Requests one client sends within one minute.
MaxServed == 101
\* Fetches of BookListing awaiting their response at once.
MaxFetches == 2

\* ------------------------------------------------------------------ inputs
Slots == 1..MaxInFlight
Books == {"b1", "b2"}
UserIds == {1, 2}
ReviewIds == 1..MaxReviews
\* Client addresses (req.ip), the key of the rate limiters.
Clients == {"c1", "c2"}

MinRating == 1
MaxRating == 5
MinContent == 10
MaxContent == 1000
MinUsername == 3
MaxUsername == 30
MinPassword == 8
\* authLimiter: max
LoginMax == 5
\* apiLimiter: max
ApiMax == 100
\* bookRoutes.get('/'): limit
PageLimit == 9

\* Request bodies a client may send: ratings and content lengths on both
\* sides of the validation limits.
RatingInputs == {0, 1, 5, 6}
ContentInputs == {9, 10}
UsernameInputs == {"al", "alice", "carol", "dave"}
EmailInputs == {"nope", "a@x.io", "c@x.io"}
PasswordInputs == {"short1", "passw0rd"}

\* ------------------------------------------------------------------ state
VARIABLES
    books,          \* Book collection: bookId -> [rating, reviewCount]
    reviews,        \* Review collection: set of review documents
    users,          \* User collection: set of user documents
    nextReviewId,   \* the _id the next inserted review gets
    req,            \* the request each slot is handling, and its position
    resp,           \* the response sent by the last step, if it sent one
    acked,          \* review ids that clients received in a 201 response
    limiter,        \* authLimiter's store: hits per client in its window;
                    \* requests served per client in the current minute
    client,         \* the browser: authReducer's state and localStorage
    listing         \* the browser: BookListing's state and its fetches

vars ==
    <<books, reviews, users, nextReviewId, req, resp, acked, limiter, client,
      listing>>

\* ----------------------------------------------------------------- numbers
\* A JavaScript number that is a quotient of two small integers, kept as a
\* reduced fraction; 0 / 0 is NaN.
NaN == [num |-> 0, den |-> 0]
Zero == [num |-> 0, den |-> 1]

RECURSIVE Gcd(_, _)
Gcd(a, b) == IF b = 0 THEN a ELSE Gcd(b, a % b)

Div(sum, n) ==
    IF n = 0 THEN NaN
    ELSE [num |-> sum \div Gcd(sum, n), den |-> n \div Gcd(sum, n)]

\* bookReviews.reduce((acc, review) => acc + review.rating, 0)
RECURSIVE SumRatings(_)
SumRatings(rs) ==
    IF rs = {} THEN 0
    ELSE LET r == CHOOSE x \in rs : TRUE
         IN r.rating + SumRatings(rs \ {r})

\* ------------------------------------------------------------- collections
\* Review.find({ bookId })
ReviewFind(b) == {r \in reviews : r.bookId = b}

\* Variant: the query names a userId field that the request does not carry.
ReviewFindByBookUserUnset(b, u) == {r \in reviews : r.bookId = b /\ r.userId = 0}

\* Review.findOne({ bookId, userId })
ReviewFindByBookUser(b, u) == {r \in reviews : r.bookId = b /\ r.userId = u}

\* Variant: the query is by _id alone.
ReviewFindById(i, u) == {r \in reviews : r.id = i}

\* Review.findOne({ _id, userId })
ReviewFindOwned(i, u) == {r \in reviews : r.id = i /\ r.userId = u}

\* User.findOne({ $or: [{ email }, { username }] })
UserFindOne(e, n) == {u \in users : u.email = e \/ u.username = n}

\* ------------------------------------------------------------- middleware
NoHeader == [scheme |-> "none", id |-> 0, signed |-> FALSE]
BasicHeader == [scheme |-> "Basic", id |-> 0, signed |-> FALSE]
Bearer(u, ok) == [scheme |-> "Bearer", id |-> u, signed |-> ok]

\* The userId a request body can carry: none (0) or any user's id.
BodyUserIds == {0} \cup UserIds

\* Authorization headers a client can send: none, another scheme, the token
\* a registered user was issued, or a token with a bad signature claiming
\* that user's id.
Headers ==
    {NoHeader, BasicHeader} \cup {Bearer(u, ok) : u \in UserIds, ok \in BOOLEAN}

Response(st, b) == [status |-> st, body |-> b]
NoResponse == Response(0, "")

\* Variant: the token is decoded and its signature is not verified.
authenticateDecodeOnly(h) ==
    IF h.scheme # "Bearer" THEN Response(401, "Authentication required")
    ELSE NoResponse

\* authenticate: the response it sends, or NoResponse when it calls next().
authenticate(h) ==
    IF h.scheme # "Bearer" THEN Response(401, "Authentication required")
    ELSE IF ~h.signed THEN Response(401, "Invalid token")
    ELSE NoResponse

\* Variant: isInt({ min: 0, max: 5 }).
reviewValidationFromZero(rating, content) ==
    rating \in 0..MaxRating /\ content \in MinContent..MaxContent

\* reviewValidation followed by validate.
reviewValidation(rating, content) ==
    rating \in MinRating..MaxRating /\ content \in MinContent..MaxContent

ValidationErrors == Response(400, "errors")

validateReview(rating, content) ==
    IF reviewValidation(rating, content) THEN NoResponse
    ELSE Response(400, "errors")

IsEmail(e) == e \in {"a@x.io", "c@x.io"}
HasLetterAndDigit(p) == p \in {"short1", "passw0rd"}

\* userValidation followed by validate.
userValidation(n, e, p) ==
    /\ Len(n) \in MinUsername..MaxUsername
    /\ IsEmail(e)
    /\ Len(p) >= MinPassword /\ HasLetterAndDigit(p)

validateUser(n, e, p) ==
    IF userValidation(n, e, p) THEN NoResponse
    ELSE Response(400, "errors")

\* ---------------------------------------------------------------- requests
NoUpdate == [rating |-> NaN, reviewCount |-> -1]

\* A handler's locals; a local is reset once the handler no longer reads it.
\* bodyUser is the userId field of the request body, 0 when the body has none.
Idle ==
    [pc |-> "idle", op |-> "none", tokenOk |-> FALSE, user |-> 0, id |-> 0,
     bookId |-> "", rating |-> 0, content |-> 0, username |-> "", email |-> "",
     password |-> "", bodyUser |-> 0, upd |-> NoUpdate]

NoResp ==
    [op |-> "none", tokenOk |-> FALSE, user |-> 0, id |-> 0, bookId |-> "",
     rating |-> 0, res |-> NoResponse, failedAt |-> ""]

\* The response res sent to request r; rating is the body's rating when the
\* response is the one of validate, 0 otherwise.
Sent(r, res, stage) ==
    [op |-> r.op, tokenOk |-> r.tokenOk, user |-> r.user, id |-> r.id,
     bookId |-> r.bookId, rating |-> 0, res |-> res, failedAt |-> stage]

\* Whether the request carries a token this server signed.
TokenOk(h) == h.scheme = "Bearer" /\ h.signed

Free(s) == req[s].pc = "idle"
InFlight(s) == ~Free(s)

\* A new request is taken into the first free slot.
Accepts(s) == Free(s) /\ \A t \in Slots : t < s => InFlight(t)

\* ------------------------------------------------------------- the browser
\* A value that may be null: <<>> is null, <<v>> is the value v.
Null == <<>>
Some(v) == <<v>>

\* Tokens and user objects a 2xx response of login or register can carry.
Tokens == {"t1", "t2", "t3", "t4"}
UserPayloads ==
    [id : {1, 2, 3}, username : {"alice", "bob", "carol"},
     email : {"a@x.io", "b@x.io", "c@x.io"}]
Payloads == [token : Tokens, user : UserPayloads]

\* JSON.stringify and JSON.parse of a user object.
Stringify(u) == <<"{", u.id, u.username, u.email, "}">>
Parse(j) == [id |-> j[2], username |-> j[3], email |-> j[4]]

\* localStorage of a first visit.
EmptyStorage == [token |-> Null, user |-> Null]

\* Variant: LOGOUT removes the token and leaves the stored user.
authReducerKeepsUser(c, action) ==
    IF action.type = "LOGIN"
        THEN [state |-> [user |-> Some(action.payload.user),
                         token |-> Some(action.payload.token)],
              storage |-> [token |-> Some(action.payload.token),
                           user |-> Some(Stringify(action.payload.user))]]
    ELSE IF action.type = "LOGOUT"
        THEN [state |-> [user |-> Null, token |-> Null],
              storage |-> [c.storage EXCEPT !.token = Null]]
    ELSE c

\* authReducer: the next state, and localStorage after its setItem and
\* removeItem calls.
authReducer(c, action) ==
    IF action.type = "LOGIN"
        THEN [state |-> [user |-> Some(action.payload.user),
                         token |-> Some(action.payload.token)],
              storage |-> [token |-> Some(action.payload.token),
                           user |-> Some(Stringify(action.payload.user))]]
    ELSE IF action.type = "LOGOUT"
        THEN [state |-> [user |-> Null, token |-> Null],
              storage |-> [token |-> Null, user |-> Null]]
    ELSE c

\* AuthProvider's initialState, read from localStorage when it mounts.
InitialState(storage) ==
    [user |-> IF storage.user # Null THEN Some(Parse(storage.user[1])) ELSE Null,
     token |-> storage.token]

AuthProvider(storage) == [state |-> InitialState(storage), storage |-> storage]

\* dispatch({ type: 'LOGIN', payload: data }) of Login and Register.
DispatchLogin ==
    /\ \E p \in Payloads : client' = authReducer(client, [type |-> "LOGIN", payload |-> p])
    /\ UNCHANGED <<books, reviews, users, nextReviewId, req, resp, acked, limiter, listing>>

\* dispatch({ type: 'LOGOUT' })
DispatchLogout ==
    /\ client' = authReducer(client, [type |-> "LOGOUT"])
    /\ UNCHANGED <<books, reviews, users, nextReviewId, req, resp, acked, limiter, listing>>

\* The page is loaded again: AuthProvider mounts with what localStorage holds.
Reload ==
    /\ client' = AuthProvider(client.storage)
    /\ UNCHANGED <<books, reviews, users, nextReviewId, req, resp, acked, limiter, listing>>

\* ------------------------------------------------------------- BookListing
\* What the user can type in the search box and pick as genre.
Searches == {"", "x"}
Genres == {"All", "Fiction"}

\* Book.countDocuments(query) for the catalogue the listing is shown against.
CountDocuments(search, genre) ==
    IF search = "" THEN (IF genre = "All" THEN 20 ELSE 9)
    ELSE (IF genre = "All" THEN 10 ELSE 0)

\* Math.ceil(total / limit)
TotalPages(search, genre) ==
    (CountDocuments(search, genre) + PageLimit - 1) \div PageLimit

\* A request GET /api/books?page=&search=&genre=
Query(p, s, g) == [page |-> p, search |-> s, genre |-> g]
NoQuery == Query(-1, "", "")

\* bookRoutes.get('/'): a negative skip is rejected by the database and the
\* catch answers 500; otherwise the page of books of the query and totalPages.
BooksResponse(q) ==
    IF (q.page - 1) * PageLimit < 0
        THEN [ok |-> FALSE, books |-> NoQuery, totalPages |-> 0]
        ELSE [ok |-> TRUE, books |-> q, totalPages |-> TotalPages(q.search, q.genre)]

\* The component after its first render and the effect that follows it:
\* useState initial values, and fetchBooks called once.
Mounted ==
    [page |-> 1, totalPages |-> 1, books |-> NoQuery, loading |-> TRUE,
     error |-> FALSE, search |-> "", genre |-> "All", rerender |-> FALSE,
     outstanding |-> <<Query(1, "", "All")>>, issued |-> Query(1, "", "All"),
     fired |-> TRUE]

\* fetchBooks up to its await: setLoading(true) and the request, built from
\* the page and the search parameters of the render it was created in.
fetchBooks(l) ==
    LET q == Query(l.page, l.search, l.genre)
    IN [l EXCEPT !.loading = TRUE, !.outstanding = Append(@, q), !.issued = q,
                 !.fired = TRUE]

\* useEffect(() => { fetchBooks() }, [page, searchParams]) after a render in
\* which the dependencies changed or not.
useEffect(l, changed) == IF changed THEN fetchBooks(l) ELSE [l EXCEPT !.fired = FALSE]

ListingOnly ==
    UNCHANGED <<books, reviews, users, nextReviewId, req, resp, acked, limiter, client>>

\* Requests in flight are bounded.  The controls are rendered when there is
\* no error, the page buttons only when loading is false.
CanFetch == Len(listing.outstanding) < MaxFetches

Min(a, b) == IF a < b THEN a ELSE b
Max(a, b) == IF a > b THEN a ELSE b

\* onClick={() => setPage(p => Math.max(1, p - 1))}, disabled={page === 1}
ClickPrevious ==
    /\ ~listing.error /\ ~listing.loading /\ ~listing.rerender /\ CanFetch
    /\ listing.page # 1
    /\ LET p == Max(1, listing.page - 1)
       IN listing' = useEffect([listing EXCEPT !.page = p], p # listing.page)
    /\ ListingOnly

\* onClick={() => setPage(p => Math.min(totalPages, p + 1))},
\* disabled={page === totalPages}
ClickNext ==
    /\ ~listing.error /\ ~listing.loading /\ ~listing.rerender /\ CanFetch
    /\ listing.page # listing.totalPages
    /\ LET p == Min(listing.totalPages, listing.page + 1)
       IN listing' = useEffect([listing EXCEPT !.page = p], p # listing.page)
    /\ ListingOnly

\* Variant: the filter handlers without setPage(1).
setFiltersKeepPage(l, s, g) ==
    LET set == [l EXCEPT !.search = s, !.genre = g]
    IN {useEffect(set, TRUE),
        IF set.page # l.page THEN [fetchBooks(set) EXCEPT !.rerender = TRUE]
                             ELSE [set EXCEPT !.rerender = TRUE, !.fired = FALSE]}

\* setSearchParams(prev => ...) followed by setPage(1): prev is the rendered
\* searchParams object and is changed in place, so every closure reads the
\* new parameters at once.  The router's update is rendered either together
\* with the page update (one effect run) or in a later render of its own, in
\* which case the page update is rendered first and runs the effect when the
\* page changed.  The set of states the handler can leave.
setFilters(l, s, g) ==
    LET set == [l EXCEPT !.search = s, !.genre = g, !.page = 1]
    IN {useEffect(set, TRUE),
        IF set.page # l.page THEN [fetchBooks(set) EXCEPT !.rerender = TRUE]
                             ELSE [set EXCEPT !.rerender = TRUE, !.fired = FALSE]}

\* handleSearch, the onChange of the search input.
HandleSearch ==
    /\ ~listing.error /\ ~listing.rerender /\ CanFetch
    /\ \E s \in Searches \ {listing.search} :
        listing' \in setFilters(listing, s, listing.genre)
    /\ ListingOnly

\* handleGenreFilter, the onValueChange of the genre select.
HandleGenreFilter ==
    /\ ~listing.error /\ ~listing.rerender /\ CanFetch
    /\ \E g \in Genres \ {listing.genre} :
        listing' \in setFilters(listing, listing.search, g)
    /\ ListingOnly

\* The render of the router's update when it was not rendered with the page
\* update: searchParams is a new object, so the effect runs.
RouterRender ==
    /\ listing.rerender /\ CanFetch
    /\ listing' = useEffect([listing EXCEPT !.rerender = FALSE], TRUE)
    /\ ListingOnly

Remove(seq, i) == [j \in 1..(Len(seq) - 1) |-> IF j < i THEN seq[j] ELSE seq[j + 1]]

\* fetchBooks after its await, for the i-th outstanding request: setBooks and
\* setTotalPages, or setError in the catch, and setLoading(false) in finally.
fetchSettles(l, i) ==
    LET r == BooksResponse(l.outstanding[i])
        rest == [l EXCEPT !.outstanding = Remove(@, i), !.fired = FALSE,
                          !.loading = FALSE]
    IN IF r.ok THEN [rest EXCEPT !.books = r.books, !.totalPages = r.totalPages]
       ELSE [rest EXCEPT !.error = TRUE]

\* A response arrives; responses arrive in any order.
FetchResponds ==
    /\ \E i \in 1..Len(listing.outstanding) : listing' = fetchSettles(listing, i)
    /\ ListingOnly

\* bcrypt.hash(password, salt) and bcrypt.compare(password, hash).
Hash(p) == <<"bcrypt", p>>
Compare(p, h) == h = Hash(p)

Init ==
    /\ books = [b \in Books |-> [rating |-> Zero, reviewCount |-> 0]]
    /\ reviews = {}
    /\ users = {[id |-> 1, username |-> "alice", email |-> "a@x.io",
                 password |-> Hash("passw0rd")],
                [id |-> 2, username |-> "bob", email |-> "b@x.io",
                 password |-> Hash("passw0rd")]}
    /\ limiter = [hits |-> [c \in Clients |-> 0], checked |-> [c \in Clients |-> 0],
                  served |-> [c \in Clients |-> 0]]
    /\ client = AuthProvider(EmptyStorage)
    /\ listing = Mounted
    /\ nextReviewId = 1
    /\ req = [s \in Slots |-> Idle]
    /\ resp = NoResp
    /\ acked = {}

Unchanged == UNCHANGED <<books, reviews, users, nextReviewId, acked>>

\* res.status(st).json(b) to request r, whose handler ran in slot s.
Respond(s, r, st, b) ==
    /\ resp' = Sent(r, Response(st, b), "")
    /\ req' = [req EXCEPT ![s] = Idle]

\* catch (error) { res.status(500).json({ error: error.message }) }
Caught(s, r, stage) ==
    /\ resp' = Sent(r, Response(500, "error"), stage)
    /\ req' = [req EXCEPT ![s] = Idle]

\* The handler of slot s waits at its next await with locals r.
Goto(s, r, label) ==
    /\ req' = [req EXCEPT ![s] = [r EXCEPT !.pc = label]]
    /\ resp' = NoResp

\* The request as the route handler sees it: req.user is the token's payload.
Request(op, h) == [Idle EXCEPT !.op = op, !.tokenOk = TokenOk(h), !.user = h.id]

\* A response sent by the middleware chain, before the route handler runs.
Rejected(op, h, res) ==
    /\ resp' = Sent([Idle EXCEPT !.op = op, !.tokenOk = TokenOk(h)], res, "")
    /\ UNCHANGED req

\* The 400 of validate to a request whose body fails reviewValidation.
Invalid(op, h, rating, content) ==
    /\ resp' = [Sent([Idle EXCEPT !.op = op, !.tokenOk = TokenOk(h)],
                      validateReview(rating, content), "")
                    EXCEPT !.rating = rating]
    /\ UNCHANGED req

\* Creates that have not inserted their review yet.
PendingCreates == {t \in Slots : req[t].op = "create" /\ req[t].pc = "save"}

\* ------------------------------------------------- POST /api/reviews
\* Review.findOne({ bookId, userId }) of the create handler.
CreateFindOne(s, r) ==
    \/ IF ReviewFindByBookUser(r.bookId, r.user) # {}
           THEN Respond(s, r, 400, "You have already reviewed this book")
           ELSE Goto(s, r, "save")
    \/ Caught(s, r, "findOne")

\* authenticate, reviewValidation, validate, and the handler up to the
\* resolution of its first await.
ReceiveCreate(s) ==
    /\ Accepts(s)
    /\ nextReviewId + Cardinality(PendingCreates) <= MaxReviews
    /\ \E h \in Headers :
        IF authenticate(h) # NoResponse
            THEN Rejected("create", h, authenticate(h))
        ELSE \E rating \in RatingInputs, content \in ContentInputs :
            IF validateReview(rating, content) # NoResponse
                THEN Invalid("create", h, rating, content)
            ELSE \E b \in Books, bu \in BodyUserIds :
                CreateFindOne(s, [Request("create", h) EXCEPT
                    !.bookId = b, !.rating = rating, !.content = content,
                    !.bodyUser = bu])
    /\ Unchanged

\* Variant: new Review(req.body) with userId defaulting to req.user.id.
NewReviewFromBody(r) ==
    [id |-> nextReviewId, bookId |-> r.bookId,
     userId |-> IF r.bodyUser # 0 THEN r.bodyUser ELSE r.user,
     rating |-> r.rating, content |-> r.content]

\* new Review({ bookId, userId: req.user.id, rating, content })
NewReview(r) ==
    [id |-> nextReviewId, bookId |-> r.bookId, userId |-> r.user,
     rating |-> r.rating, content |-> r.content]

\* Variant: reviewSchema with a unique index on (bookId, userId).
CreateSaveUnique(s) ==
    /\ req[s].op = "create" /\ req[s].pc = "save"
    /\ IF \E r \in reviews : r.bookId = req[s].bookId /\ r.userId = req[s].user
           THEN /\ Caught(s, req[s], "unique")
                /\ UNCHANGED <<reviews, nextReviewId>>
           ELSE /\ reviews' = reviews \cup {NewReview(req[s])}
                /\ nextReviewId' = nextReviewId + 1
                /\ Goto(s, [req[s] EXCEPT !.id = nextReviewId, !.user = 0,
                                          !.rating = 0, !.content = 0], "find")
    /\ UNCHANGED <<books, users, acked>>

\* review.save(): reviewSchema declares no unique index.
CreateSave(s) ==
    /\ req[s].op = "create" /\ req[s].pc = "save"
    /\ reviews' = reviews \cup {NewReview(req[s])}
    /\ nextReviewId' = nextReviewId + 1
    /\ Goto(s, [req[s] EXCEPT !.id = nextReviewId, !.user = 0,
                              !.rating = 0, !.content = 0], "find")
    /\ UNCHANGED <<books, users, acked>>

\* The unguarded mean of the create and update handlers.
AverageRating(rs) == Div(SumRatings(rs), Cardinality(rs))

\* The guarded mean of the delete handler.
AverageRatingOrZero(rs) ==
    IF Cardinality(rs) > 0 THEN Div(SumRatings(rs), Cardinality(rs)) ELSE Zero

CreateAggregate(rs) ==
    [rating |-> AverageRating(rs), reviewCount |-> Cardinality(rs)]

CreateFind(s) ==
    /\ req[s].op = "create" /\ req[s].pc = "find"
    /\ Goto(s, [req[s] EXCEPT !.upd = CreateAggregate(ReviewFind(req[s].bookId)),
                              !.bodyUser = 0], "update")
    /\ Unchanged

\* Variant: the aggregate is recomputed from the stored reviews when the book
\* is written.
BookWriteRecomputed(b, upd) ==
    [books EXCEPT ![b] =
        [rating |-> AverageRatingOrZero(ReviewFind(b)),
         reviewCount |-> Cardinality(ReviewFind(b))]]

\* Book.findByIdAndUpdate(bookId, upd): the fields upd names are overwritten
\* (reviewCount -1 stands for a field the update does not name).
BookWrite(b, upd) ==
    [books EXCEPT ![b] =
        [rating |-> upd.rating,
         reviewCount |-> IF upd.reviewCount = -1 THEN books[b].reviewCount
                         ELSE upd.reviewCount]]

\* Book.findByIdAndUpdate, then review.populate and the response.  Whether
\* the Number cast of the update rejects NaN depends on the Mongoose release:
\* both outcomes are possible.  populate reads the User collection only; when
\* it rejects, the book has been written and the catch answers 500.
FindByIdAndUpdate(s, st) ==
    \/ /\ books' = BookWrite(req[s].bookId, req[s].upd)
       /\ Respond(s, req[s], st, "review")
    \/ /\ books' = BookWrite(req[s].bookId, req[s].upd)
       /\ Caught(s, req[s], "populate")
    \/ /\ req[s].upd.rating = NaN
       /\ Caught(s, req[s], "cast")
       /\ UNCHANGED books

CreateBookUpdate(s) ==
    /\ req[s].op = "create" /\ req[s].pc = "update"
    /\ FindByIdAndUpdate(s, 201)
    /\ acked' = IF resp'.res.status = 201 THEN acked \cup {req[s].id} ELSE acked
    /\ UNCHANGED <<reviews, users, nextReviewId>>

\* ------------------------------------------------- PUT /api/reviews/:id
\* Review.findOne({ _id, userId }) of the update and delete handlers; the
\* handler keeps the document found and reads its bookId later.
FindOwned(s, r, next) ==
    \/ IF ReviewFindOwned(r.id, r.user) = {}
           THEN Respond(s, r, 404, "Review not found")
           ELSE LET review == CHOOSE x \in ReviewFindOwned(r.id, r.user) : TRUE
                IN Goto(s, [r EXCEPT !.bookId = review.bookId], next)
    \/ Caught(s, r, "findOne")

ReceiveUpdate(s) ==
    /\ Accepts(s)
    /\ \E h \in Headers :
        IF authenticate(h) # NoResponse
            THEN Rejected("update", h, authenticate(h))
        ELSE \E rating \in RatingInputs, content \in ContentInputs :
            IF validateReview(rating, content) # NoResponse
                THEN Invalid("update", h, rating, content)
            ELSE \E i \in ReviewIds, bu \in BodyUserIds :
                FindOwned(s, [Request("update", h) EXCEPT
                    !.id = i, !.rating = rating, !.content = content,
                    !.bodyUser = bu], "save")
    /\ Unchanged

\* review.save() of a loaded document sets the modified paths of the stored
\* document with its _id; it inserts nothing when that document is gone.
UpdateSave(s) ==
    /\ req[s].op = "update" /\ req[s].pc = "save"
    /\ reviews' = {IF r.id = req[s].id
                      THEN [r EXCEPT !.rating = req[s].rating, !.content = req[s].content]
                      ELSE r : r \in reviews}
    /\ Goto(s, [req[s] EXCEPT !.user = 0, !.rating = 0, !.content = 0,
                              !.bodyUser = 0], "find")
    /\ UNCHANGED <<books, users, nextReviewId, acked>>

UpdateAggregate(rs) == [rating |-> AverageRating(rs), reviewCount |-> -1]

UpdateFind(s) ==
    /\ req[s].op = "update" /\ req[s].pc = "find"
    /\ Goto(s, [req[s] EXCEPT !.upd = UpdateAggregate(ReviewFind(req[s].bookId))],
            "update")
    /\ Unchanged

UpdateBookUpdate(s) ==
    /\ req[s].op = "update" /\ req[s].pc = "update"
    /\ FindByIdAndUpdate(s, 200)
    /\ UNCHANGED <<reviews, users, nextReviewId, acked>>

\* Variant: the delete route reads the token's payload without authenticate.
ReceiveDeleteUnverified(s) ==
    /\ Accepts(s)
    /\ \E h \in Headers :
        IF h.scheme # "Bearer"
            THEN Rejected("delete", h, Response(401, "Authentication required"))
        ELSE \E i \in ReviewIds :
            FindOwned(s, [Request("delete", h) EXCEPT !.id = i], "remove")
    /\ Unchanged

\* ------------------------------------------------- DELETE /api/reviews/:id
ReceiveDelete(s) ==
    /\ Accepts(s)
    /\ \E h \in Headers :
        IF authenticate(h) # NoResponse
            THEN Rejected("delete", h, authenticate(h))
        ELSE \E i \in ReviewIds :
            FindOwned(s, [Request("delete", h) EXCEPT !.id = i], "remove")
    /\ Unchanged

DeleteRemove(s) ==
    /\ req[s].op = "delete" /\ req[s].pc = "remove"
    /\ reviews' = {r \in reviews : r.id # req[s].id}
    /\ Goto(s, [req[s] EXCEPT !.user = 0], "find")
    /\ UNCHANGED <<books, users, nextReviewId, acked>>

\* Variant: the delete handler with the unguarded mean of the other two.
DeleteAggregateUnguarded(rs) ==
    [rating |-> AverageRating(rs), reviewCount |-> Cardinality(rs)]

DeleteAggregate(rs) ==
    [rating |-> AverageRatingOrZero(rs), reviewCount |-> Cardinality(rs)]

DeleteFind(s) ==
    /\ req[s].op = "delete" /\ req[s].pc = "find"
    /\ Goto(s, [req[s] EXCEPT !.upd = DeleteAggregate(ReviewFind(req[s].bookId))],
            "update")
    /\ Unchanged

DeleteBookUpdate(s) ==
    /\ req[s].op = "delete" /\ req[s].pc = "update"
    /\ books' = BookWrite(req[s].bookId, req[s].upd)
    /\ Respond(s, req[s], 200, "Review deleted successfully")
    /\ UNCHANGED <<reviews, users, nextReviewId, acked>>

\* ------------------------------------------------- POST /api/auth/register
\* userValidation, validate and User.findOne; the route has no authenticate
\* middleware, so the Authorization header is not looked at.
ReceiveRegister(s) ==
    /\ Accepts(s)
    /\ \E h \in {NoHeader, Bearer(1, TRUE)},
          n \in UsernameInputs, e \in EmailInputs, p \in PasswordInputs :
        IF validateUser(n, e, p) # NoResponse
            THEN Rejected("register", h, validateUser(n, e, p))
        ELSE LET r == [Idle EXCEPT !.op = "register", !.tokenOk = TokenOk(h),
                                   !.username = n, !.email = e,
                                   !.password = p]
             IN \/ IF UserFindOne(e, n) # {}
                       THEN Respond(s, r, 400, "User with this email or username already exists")
                       ELSE Goto(s, r, "save")
                \/ Caught(s, r, "findOne")
    /\ Unchanged

\* user.save() under the unique indexes on username and email, then jwt.sign.
RegisterSave(s) ==
    /\ req[s].op = "register" /\ req[s].pc = "save"
    /\ IF UserFindOne(req[s].email, req[s].username) # {}
           THEN /\ Caught(s, req[s], "E11000")
                /\ UNCHANGED users
           ELSE LET uid == Cardinality(users) + 1
                IN /\ users' = users \cup
                        {[id |-> uid, username |-> req[s].username, email |-> req[s].email,
                          password |-> Hash(req[s].password)]}
                   /\ Respond(s, [req[s] EXCEPT !.user = uid], 201, "token")
    /\ UNCHANGED <<books, reviews, nextReviewId, acked>>

\* ------------------------------------------------- GET /api/auth/me
ReceiveMe(s) ==
    /\ Accepts(s)
    /\ \E h \in Headers :
        IF authenticate(h) # NoResponse
            THEN Rejected("me", h, authenticate(h))
            ELSE \/ Respond(s, Request("me", h), 200, "user")
                 \/ Caught(s, Request("me", h), "findOne")
    /\ Unchanged

\* ------------------------------------------------- POST /api/auth/login
TooMany == Response(429, "Too many login attempts, please try again later")
InvalidCredentials == Response(401, "Invalid credentials")

\* Variant: the login route without authLimiter in its chain.
authLimiterAbsent(hits) == FALSE

\* authLimiter: whether the request that brings its client's hits in the
\* current window to the given number is refused.
authLimiter(hits) == hits > LoginMax

\* User.findOne({ email })
UserFindByEmail(e) == {u \in users : u.email = e}

\* authLimiter, the email and password validators, validate and
\* User.findOne({ email }).  checked counts the requests of the client's
\* current window that got as far as the lookup.
ReceiveLogin(s) ==
    /\ Accepts(s)
    /\ \E c \in Clients :
        /\ limiter.hits[c] < MaxAttempts
        /\ LET hits == limiter.hits[c] + 1
               counted == [limiter EXCEPT !.hits[c] = hits]
               r == [Idle EXCEPT !.op = "login"]
           IN IF authLimiter(hits)
                THEN /\ limiter' = counted
                     /\ resp' = Sent(r, TooMany, "")
                     /\ UNCHANGED req
              ELSE \E e \in EmailInputs, pw \in PasswordInputs :
                IF ~IsEmail(e)
                    THEN /\ limiter' = counted
                         /\ resp' = Sent(r, ValidationErrors, "")
                         /\ UNCHANGED req
                ELSE /\ limiter' = [counted EXCEPT !.checked[c] = @ + 1]
                     /\ \/ IF UserFindByEmail(e) = {}
                               THEN Respond(s, r, 401, "Invalid credentials")
                               ELSE LET user == CHOOSE u \in UserFindByEmail(e) : TRUE
                                    IN Goto(s, [r EXCEPT !.user = user.id,
                                                         !.password = pw], "compare")
                        \/ Caught(s, r, "findOne")
    /\ Unchanged

\* bcrypt.compare, jwt.sign and the response.
LoginCompare(s) ==
    /\ req[s].op = "login" /\ req[s].pc = "compare"
    /\ LET user == CHOOSE u \in users : u.id = req[s].user
           r == [req[s] EXCEPT !.password = ""]
       IN IF Compare(req[s].password, user.password)
            THEN Respond(s, r, 200, "token")
            ELSE Respond(s, r, 401, "Invalid credentials")
    /\ Unchanged
    /\ UNCHANGED limiter

\* The client's window of windowMs ends: its hits are forgotten.
WindowExpires(c) ==
    /\ limiter.hits[c] > 0
    /\ limiter' = [limiter EXCEPT !.hits[c] = 0, !.checked[c] = 0]
    /\ resp' = NoResp
    /\ UNCHANGED <<books, reviews, users, nextReviewId, req, acked, client, listing>>

\* ------------------------------------------------- server.js
\* The application-level chain: cors(), express.json(), then the router the
\* path is mounted on.  apiLimiter is exported by middleware/auth.js and is
\* in no chain, so every request is handed to its router.
Serve(c) ==
    /\ limiter.served[c] < MaxServed
    /\ limiter' = [limiter EXCEPT !.served[c] = @ + 1]
    /\ resp' = NoResp
    /\ UNCHANGED <<books, reviews, users, nextReviewId, req, acked, client, listing>>

\* A minute of the client's requests ends.
MinuteExpires(c) ==
    /\ limiter.served[c] > 0
    /\ limiter' = [limiter EXCEPT !.served[c] = 0]
    /\ resp' = NoResp
    /\ UNCHANGED <<books, reviews, users, nextReviewId, req, acked, client, listing>>

\* ------------------------------------------------- database errors
\* Any awaited database call may reject; the handler's catch answers 500
\* and nothing already written is undone.
DbSteps == {"save", "remove", "find", "update"}

\* The stages at which a rejected database call was caught.
DbErrors == DbSteps \cup {"findOne", "populate", "E11000"}

\* Variant: the catch block undoes the insert of a create.
DbFailRollback(s) ==
    /\ req[s].pc \in DbSteps
    /\ Caught(s, req[s], req[s].pc)
    /\ reviews' = IF req[s].op = "create" /\ req[s].pc \in {"find", "update"}
                      THEN {r \in reviews : r.id # req[s].id}
                      ELSE reviews
    /\ UNCHANGED <<books, users, nextReviewId, acked>>

\* A database call of the handler rejects: the catch block answers 500.
DbFail(s) ==
    /\ req[s].pc \in DbSteps
    /\ Caught(s, req[s], req[s].pc)
    /\ Unchanged

\* ------------------------------------------------- specifications
\* routes/reviews.js
ReviewStep(s) ==
    \/ ReceiveCreate(s) \/ CreateSave(s) \/ CreateFind(s) \/ CreateBookUpdate(s)
    \/ ReceiveUpdate(s) \/ UpdateSave(s) \/ UpdateFind(s) \/ UpdateBookUpdate(s)
    \/ ReceiveDelete(s) \/ DeleteRemove(s) \/ DeleteFind(s) \/ DeleteBookUpdate(s)

\* routes/auth.js
AuthStep(s) == ReceiveRegister(s) \/ RegisterSave(s) \/ ReceiveMe(s)

\* The request bodies hold the fields the handlers read and nothing else.
PlainBodies == \A s \in Slots : req[s].bodyUser = 0

\* The review routes with up to MaxInFlight requests interleaved at their
\* awaits, every database call being answered, for plain request bodies.
Next ==
    /\ \E s \in Slots : ReviewStep(s) /\ resp'.failedAt \notin DbErrors
    /\ PlainBodies'
    /\ UNCHANGED <<limiter, client, listing>>

Spec == Init /\ [][Next]_vars

\* Whether slot s is the only one that may be handling a request.
Alone(s) == \A t \in Slots \ {s} : Free(t)

\* Every route, with requests executed one at a time (a request runs only
\* while no other request is in flight), every database call being answered;
\* a request body may carry a userId of its own.
SeqNext ==
    \E s \in Slots :
        /\ Alone(s)
        /\ ReviewStep(s) \/ AuthStep(s)
        /\ resp'.failedAt \notin DbErrors
        /\ UNCHANGED <<limiter, client, listing>>

SeqSpec == Init /\ [][SeqNext]_vars

\* The review routes with requests executed one at a time, where any
\* database call may be rejected, for plain request bodies.
FaultNext ==
    /\ \E s \in Slots : Alone(s) /\ (ReviewStep(s) \/ DbFail(s))
    /\ PlainBodies'
    /\ UNCHANGED <<limiter, client, listing>>

FaultSpec == Init /\ [][FaultNext]_vars

\* routes/auth.js with up to MaxInFlight requests interleaved at their awaits;
\* every database call is answered, and a save that violates a unique index
\* of userSchema is answered with the duplicate key error.
AuthNext ==
    /\ \E s \in Slots : AuthStep(s) /\ resp'.failedAt \notin DbErrors \ {"E11000"}
    /\ UNCHANGED <<limiter, client, listing>>

\* POST /login with requests executed one at a time and rate limit windows
\* ending at any moment; every database call is answered.
LoginNext ==
    \/ \E s \in Slots :
        /\ Alone(s)
        /\ ReceiveLogin(s) \/ LoginCompare(s)
        /\ resp'.failedAt \notin DbErrors
        /\ UNCHANGED <<client, listing>>
    \/ \E c \in Clients : WindowExpires(c)

LoginSpec == Init /\ [][LoginNext]_vars

\* The requests of each client as server.js admits them, minute by minute.
ApiNext == \E c \in Clients : Serve(c) \/ MinuteExpires(c)

ApiSpec == Init /\ [][ApiNext]_vars

\* One browser tab: logins, logouts and page reloads in any order.
ClientNext == DispatchLogin \/ DispatchLogout \/ Reload

ClientSpec == Init /\ [][ClientNext]_vars

\* BookListing in one tab: clicks, filter changes and responses in any order.
ListingNext ==
    \/ ClickPrevious \/ ClickNext \/ HandleSearch \/ HandleGenreFilter
    \/ RouterRender \/ FetchResponds

ListingSpec == Init /\ [][ListingNext]_vars

AuthSpec == Init /\ [][AuthNext]_vars

\* ------------------------------------------------- properties
Mutations == {"create", "update", "delete"}
Protected == Mutations \cup {"me"}

Quiet == \A s \in Slots : Free(s)

\* Whether slot s takes a step: it receives a request, goes on, or answers.
Acts(s) == req'[s] # req[s]

\* Whether a review mutation of book b is in flight.
Touching(b) ==
    \E s \in Slots : InFlight(s) /\ req[s].op \in Mutations /\ req[s].bookId = b

\* The mean of a set of reviews, 0 for no review.
MeanRating(rs) == IF rs = {} THEN Zero ELSE Div(SumRatings(rs), Cardinality(rs))

\* What book b's derived fields are meant to be.
Derived(b) ==
    [rating |-> MeanRating(ReviewFind(b)), reviewCount |-> Cardinality(ReviewFind(b))]

SamePair(r1, r2) == r1.userId = r2.userId /\ r1.bookId = r2.bookId

\* The stored reviews of book b by user u.
ReviewsOf(u, b) == {r \in reviews : r.userId = u /\ r.bookId = b}

NoDuplicate == \A r1, r2 \in reviews : SamePair(r1, r2) => r1 = r2

AlreadyReviewed == Response(400, "You have already reviewed this book")

\* C1: for every book with no review create, update or delete in flight on
\* it, the stored rating is the mean of the ratings of its stored reviews and
\* the stored reviewCount is their number.
C1_AggregateMatchesReviews ==
    \A b \in Books : ~Touching(b) => books[b] = Derived(b)

\* A create is admitted to its save only when the pre-check found no review
\* of its (user, book) pair.
PreCheckRead ==
    \A s \in Slots :
        (Free(s) /\ req'[s].op = "create" /\ req'[s].pc = "save")
            => ReviewsOf(req'[s].user, req'[s].bookId) = {}

\* C2: with requests executed one at a time, a POST by an authenticated user
\* for a book that user has already reviewed is answered 400, stores no review
\* and leaves the book as it was; the store never holds two reviews with the
\* same (userId, bookId).
C2_SecondReviewRejected ==
    /\ [][/\ PreCheckRead
          /\ (req' = req /\ resp'.op = "create" /\ resp'.bookId # "")
                => /\ resp'.res = AlreadyReviewed
                   /\ ReviewsOf(resp'.user, resp'.bookId) # {}
                   /\ reviews' = reviews /\ books' = books]_vars
    /\ []NoDuplicate

C2_Witness ==
    /\ Quiet
    /\ resp.op = "create" /\ resp.res = AlreadyReviewed
    /\ ReviewsOf(resp.user, resp.bookId) # {}
    /\ books[resp.bookId].reviewCount = 1

\* C3: two POSTs for one (user, book) pair can both pass the pre-check before
\* either save commits: the pre-check reads the store as it is when it runs,
\* and the save inserts a review with a fresh _id whatever the store holds
\* by then, so both are answered 201 and two reviews of the pair are stored.
C3_CheckThenInsert ==
    [][/\ PreCheckRead
       /\ \A s \in Slots :
            (req[s].op = "create" /\ req[s].pc = "save" /\ Acts(s))
                => /\ req'[s].pc = "find"
                   /\ reviews' = reviews \cup
                        {[id |-> nextReviewId, bookId |-> req[s].bookId,
                          userId |-> req[s].user, rating |-> req[s].rating,
                          content |-> req[s].content]}
                   /\ \A r \in reviews : r.id # nextReviewId]_vars

C3_Witness ==
    /\ Quiet
    /\ \E r1, r2 \in reviews :
        r1.id # r2.id /\ SamePair(r1, r2) /\ {r1.id, r2.id} \subseteq acked

\* C4: a handler writes to the book the aggregate of the reviews it reloaded,
\* whatever review writes have committed since its reload; so two mutations
\* of one book can both succeed and leave the book with a rating or
\* reviewCount that is not the mean or count of the stored reviews.
C4_StaleAggregateWritten ==
    [][\A s \in Slots :
        (req[s].op \in Mutations /\ req[s].pc = "update" /\ Acts(s)
                /\ resp'.failedAt = "")
            => /\ books'[req[s].bookId].rating = req[s].upd.rating
               /\ books'[req[s].bookId].reviewCount =
                    IF req[s].op = "update" THEN books[req[s].bookId].reviewCount
                    ELSE req[s].upd.reviewCount
               /\ \A b \in Books \ {req[s].bookId} : books'[b] = books[b]]_vars

C4_Witness ==
    /\ Quiet
    /\ \E r1, r2 \in reviews :
        /\ r1.userId # r2.userId /\ r1.bookId = r2.bookId
        /\ {r1.id, r2.id} \subseteq acked
        /\ books[r1.bookId] # Derived(r1.bookId)

Deleted == Response(200, "Review deleted successfully")

\* C5: when the owner deletes the only review of a book and no other request
\* is in flight, the review is removed, the reload is empty, the book's rating
\* and reviewCount are set to 0 (not NaN, not the previous rating) and the
\* request is answered 200.
C5_LastReviewDeleted ==
    [][\A s \in Slots :
        (req[s].op = "delete" /\ Acts(s))
            => /\ req[s].pc = "remove"
                    => reviews' = {r \in reviews : r.id # req[s].id}
               /\ (req[s].pc = "find" /\ ReviewFind(req[s].bookId) = {})
                    => req'[s].upd = [rating |-> Zero, reviewCount |-> 0]
               /\ (req[s].pc = "update" /\ ReviewFind(req[s].bookId) = {})
                    => /\ resp'.res = Deleted
                       /\ books'[req[s].bookId] = [rating |-> Zero, reviewCount |-> 0]]_vars

C5_Witness ==
    /\ Quiet
    /\ resp.op = "delete" /\ resp.res = Deleted /\ resp.id \in acked
    /\ ReviewFind(resp.bookId) = {}
    /\ books[resp.bookId] = [rating |-> Zero, reviewCount |-> 0]

\* C6: in each of the create, update and delete handlers, when the reload of
\* the affected book's reviews is empty, the rating the handler goes on to
\* write to the book is 0, also when a concurrent delete emptied the set
\* between the handler's review write and its reload.
C6_EmptyReloadWritesZero ==
    [][\A s \in Slots :
        (req[s].op \in Mutations /\ req[s].pc = "find" /\ Acts(s)
                /\ ReviewFind(req[s].bookId) = {})
            => req'[s].upd.rating = Zero]_vars

\* The request of slot s fails at its reload or at its aggregate write.
FailsAfterReviewWrite(s) ==
    /\ req[s].op \in Mutations /\ req[s].pc \in {"find", "update"}
    /\ Acts(s) /\ resp'.failedAt \in {"find", "update"}

\* The catch block's answer, the review write left in place and the book
\* left with its previous values.
AnsweredWithoutRollback(s) ==
    /\ resp'.res.status = 500 /\ Free(s)'
    /\ reviews' = reviews /\ books' = books
    /\ req[s].op = "create" => \E r \in reviews' : r.id = req[s].id
    /\ req[s].op = "delete" => \A r \in reviews' : r.id # req[s].id

\* C7 as stated: a failure of the reload or of the aggregate write after the
\* review write is answered 500 without rollback, the book keeps its previous
\* values, and the book then disagrees with the stored reviews.
C7_FailureLeavesDisagreement ==
    [][\A s \in Slots :
        FailsAfterReviewWrite(s)
            => /\ AnsweredWithoutRollback(s)
               /\ books'[req[s].bookId] # Derived(req[s].bookId)]_vars

\* C7: a failure of the reload or of the aggregate write after the review
\* write has committed is answered 500, the review write is not rolled back
\* and the book keeps its previous rating and reviewCount.
C7_FailureKeepsReviewWrite ==
    [][\A s \in Slots :
        FailsAfterReviewWrite(s) => AnsweredWithoutRollback(s)]_vars

C7_Witness ==
    /\ Quiet
    /\ resp.op \in Mutations /\ resp.failedAt \in {"find", "update"}
    /\ resp.res.status = 500
    /\ books[resp.bookId] # Derived(resp.bookId)

\* C8: a request to POST /reviews, PUT /reviews/:id, DELETE /reviews/:id or
\* GET /me without a bearer token that verifies is answered 401 by the
\* middleware, never reaches its handler, and changes no review, book or user.
C8_UnauthenticatedRejected ==
    /\ [][(resp'.op \in Protected /\ ~resp'.tokenOk)
            => /\ resp'.res.status = 401
               /\ req' = req
               /\ reviews' = reviews /\ books' = books /\ users' = users]_vars
    /\ [](\A s \in Slots : req[s].op \in Protected => req[s].tokenOk)

C8_Witness ==
    /\ resp.op \in Protected /\ ~resp.tokenOk
    /\ resp.res = Response(401, "Invalid token")
    /\ reviews # {}

\* C9 as stated: every change of the Book, Review or User collection is made
\* by a request that carried a valid bearer token.
C9_EveryMutationAuthenticated ==
    [][(reviews' # reviews \/ books' # books \/ users' # users)
        => \E s \in Slots : Acts(s) /\ req[s].tokenOk]_vars

\* C9: every change of the Book or Review collection is made by a review
\* create, update or delete request that carried a valid bearer token;
\* the User collection is changed by registration only, which asks for no
\* token.
C9_ReviewMutationsAuthenticated ==
    [][/\ (reviews' # reviews \/ books' # books)
            => \E s \in Slots :
                Acts(s) /\ req[s].op \in Mutations /\ req[s].tokenOk
       /\ users' # users
            => \E s \in Slots : Acts(s) /\ req[s].op = "register"]_vars

C9_Witness ==
    /\ resp.op = "register" /\ resp.res.status = 201 /\ ~resp.tokenOk
    /\ \E u \in users : u.id = resp.user /\ u.username = "carol"

NotFound == Response(404, "Review not found")

C11_RatingOutOfRangeRejected ==
    /\ [][/\ \A s \in Slots :
                (Free(s) /\ req'[s].op \in {"create", "update"})
                    => req'[s].rating \in MinRating..MaxRating
          /\ (/\ resp'.op \in {"create", "update"} /\ resp'.tokenOk
              /\ resp'.bookId = "" /\ resp'.id = 0)
                => /\ resp'.res = ValidationErrors
                   /\ req' = req /\ reviews' = reviews /\ books' = books
          /\ resp'.res = ValidationErrors
                => req' = req /\ reviews' = reviews /\ books' = books]_vars
    /\ [](\A r \in reviews : r.rating \in MinRating..MaxRating)

C11_Witness ==
    /\ resp.op \in {"create", "update"} /\ resp.tokenOk
    /\ resp.res = ValidationErrors
    /\ resp.rating \in {MinRating - 1, MaxRating + 1}
    /\ reviews # {}

\* C12: a registration request whose email is held by a stored user when it
\* is answered gets 400 and leaves the User collection unchanged, also when
\* another registration with the same email committed while it was in flight.
C12_DuplicateEmailRejected ==
    [][\A s \in Slots :
        (/\ req[s].op = "register" /\ Acts(s)
         /\ \E u \in users : u.email = req[s].email)
            => resp'.res.status = 400 /\ users' = users]_vars

\* Client c sends a login request in this step.
LoginFrom(c) == limiter'.hits[c] = limiter.hits[c] + 1

\* C13: within one window of authLimiter at most 5 login requests of a
\* client get as far as the credential check; a request that finds 5 or more
\* hits of its client in the window is answered 429 by the limiter with no
\* user lookup and no password comparison; a request that finds fewer is not
\* refused by the limiter; when the window ends the client's count starts
\* again from 0.
C13_LoginRateLimited ==
    /\ [](\A c \in Clients : limiter.checked[c] <= LoginMax)
    /\ [][\A c \in Clients :
            /\ (LoginFrom(c) /\ limiter.hits[c] >= LoginMax)
                => /\ resp'.res = TooMany
                   /\ limiter'.checked = limiter.checked
                   /\ req' = req
            /\ (LoginFrom(c) /\ limiter.hits[c] < LoginMax)
                => resp'.res # TooMany
            /\ limiter'.hits[c] < limiter.hits[c]
                => limiter'.hits[c] = 0 /\ limiter'.checked[c] = 0]_vars

C13_Witness ==
    /\ resp.op = "login" /\ resp.res = TooMany
    /\ \E c \in Clients :
        /\ limiter.hits[c] = LoginMax + 1 /\ limiter.checked[c] = LoginMax
        /\ \E d \in Clients \ {c} : limiter.hits[d] = 1 /\ limiter.checked[d] = 1

\* C14: within one minute at most 100 requests of one client are served.
C14_ApiRateLimited == \A c \in Clients : limiter.served[c] <= ApiMax

\* C15: after any sequence of LOGIN and LOGOUT actions and page reloads,
\* localStorage holds 'token' and 'user' exactly when the state has a non-null
\* token and user, the stored token is the state's token and the stored user
\* is the JSON text of the state's user; and AuthProvider initialised from
\* localStorage has the user and token of the current state.
C15_StorageInStep ==
    /\ client.state.token # Null <=> client.state.user # Null
    /\ client.storage.token # Null <=> client.state.token # Null
    /\ client.storage.user # Null <=> client.state.user # Null
    /\ client.storage.token = client.state.token
    /\ client.state.user # Null
        => client.storage.user = <<(<<"{", client.state.user[1].id,
                                     client.state.user[1].username,
                                     client.state.user[1].email, "}">>)>>
    /\ AuthProvider(client.storage).state = client.state

C15_Witness ==
    /\ client.state.token = <<"t2">>
    /\ client.state.user = <<[id |-> 3, username |-> "carol", email |-> "c@x.io"]>>
    /\ client.storage.token = <<"t2">>
    /\ client.storage.user = <<(<<"{", 3, "carol", "c@x.io", "}">>)>>

\* C16: every change of the search text or of the genre filter sets the page
\* to 1, and the fetch that follows the change, in the same render or in the
\* render of the router's update, requests page 1 with the new search and
\* genre, whatever page was shown before.
C16_FilterChangeResetsPage ==
    [][/\ (listing'.search # listing.search \/ listing'.genre # listing.genre)
            => /\ listing'.page = 1
               /\ listing'.fired \/ listing'.rerender
               /\ listing'.fired
                    => listing'.issued = [page |-> 1, search |-> listing'.search,
                                          genre |-> listing'.genre]
       /\ (listing.rerender /\ ~listing'.rerender)
            => /\ listing'.fired
               /\ listing'.issued = [page |-> 1, search |-> listing'.search,
                                     genre |-> listing'.genre]]_vars

C16_Witness ==
    /\ listing.fired
    /\ listing.issued = [page |-> 1, search |-> "x", genre |-> "All"]
    /\ listing.books = [page |-> 3, search |-> "", genre |-> "All"]

\* C18: the current page of BookListing is at least 1, and no request is sent
\* for a page below 1.
C18_PageAtLeastOne ==
    /\ listing.page >= 1
    /\ \A i \in 1..Len(listing.outstanding) : listing.outstanding[i].page >= 1

\* The displayed books and totalPages are those of the response to the most
\* recently issued request.
ShowsLatest ==
    /\ listing.books = listing.issued
    /\ listing.totalPages =
        (CountDocuments(listing.issued.search, listing.issued.genre) + PageLimit - 1)
            \div PageLimit

\* C19: loading is true exactly while some fetch is outstanding, and once
\* no fetch is outstanding (and none has failed) the displayed books and
\* totalPages are those of the most recently issued request.
C19_LatestResponseShown ==
    /\ listing.loading <=> Len(listing.outstanding) > 0
    /\ (Len(listing.outstanding) = 0 /\ ~listing.error) => ShowsLatest


\* C17: a review is stored only by the save of a POST /reviews request that
\* passed authenticate, with the userId of that request's token and whatever
\* userId the request body carried; and no step, of an update or of any other
\* request, changes the userId or the bookId of a stored review.
C17_ReviewAttributedToToken ==
    [][/\ \A r \in reviews' \ reviews :
            (\A o \in reviews : o.id # r.id) =>
                \E s \in Slots :
                    /\ req[s].op = "create" /\ req[s].pc = "save"
                    /\ req'[s].pc # "save"
                    /\ req[s].tokenOk
                    /\ r.userId = req[s].user
                    /\ r.bookId = req[s].bookId
       /\ \A o \in reviews : \A r \in reviews' :
            r.id = o.id => r.userId = o.userId /\ r.bookId = o.bookId]_vars

\* A review is stored for the token's user by a request whose body named the
\* other user.
C17_Witness ==
    \E s \in Slots : \E r \in reviews :
        /\ req[s].op = "create" /\ req[s].pc = "find"
        /\ r.id = req[s].id
        /\ req[s].bodyUser # 0
        /\ req[s].bodyUser # r.userId
====
